---------------------------- MODULE Spec2Model ----------------------------
(***************************************************************************)
(* Model of cargo-dist's GitHub CI generator (src/cargo-dist/src/ci.rs).   *)
(*                                                                         *)
(* generate_github_ci creates <workspace>/.github/workflows/, creates (and *)
(* truncates) release.yml in it and lets write_github_ci write the         *)
(* workflow document: three static sections with, between them, one env    *)
(* line listing every target and one matrix entry per target that          *)
(* github_os_for_target maps to a GitHub runner.                           *)
(*                                                                         *)
(* Text is modelled as a sequence of chunks.  A chunk is one character of  *)
(* a target string, or one literal of the source that the model never      *)
(* looks into (a static section, a key with its indentation, a runner      *)
(* name, the newline that writeln! adds).  The bytes of a file are the     *)
(* concatenation of its chunks.                                            *)
(***************************************************************************)
EXTENDS Naturals, Sequences, FiniteSets

\* Longest target list handed to write_github_ci.
MaxTargets == 2
\* Longest probe string of the resolver specification, in segments.
MaxSegs == 3

VARIABLES
    ci_dir_exists,   \* <workspace>/.github/workflows/ exists
    ci_file_exists,  \* <workspace>/.github/workflows/release.yml exists
    ci_file,         \* its content (<<>> when it does not exist)
    pc,              \* position of the running generate_github_ci call
    targets,         \* the `targets` slice of write_github_ci
    idx,             \* number of targets the matrix loop has consumed
    result,          \* what generate_github_ci returns
    warnings,        \* targets named by warn! during the call, in order
    ops,             \* I/O calls the call has made, with their outcome, in order
    prior,           \* what the output path held when the call started
    recording,       \* whether successful documents are remembered (golden)
    golden,          \* a remembered successful run: its targets and its document
    probe,           \* resolver specification: the string handed to github_os_for_target
    probed           \* resolver specification: <<>> before the call, <<its result>> after

vars == <<ci_dir_exists, ci_file_exists, ci_file, pc, targets, idx, result,
          warnings, ops, prior, recording, golden, probe, probed>>

-----------------------------------------------------------------------------
(* Strings *)

LINUX   == <<"l", "i", "n", "u", "x">>
APPLE   == <<"a", "p", "p", "l", "e">>
WINDOWS == <<"w", "i", "n", "d", "o", "w", "s">>

\* Option<&'static str>: None is <<>>, Some(x) is <<x>>.
None == <<>>
Some(x) == <<x>>

\* haystack[i..] starts with needle.
StartsWithAt(haystack, needle, i) ==
    /\ i + Len(needle) - 1 <= Len(haystack)
    /\ \A k \in 1..Len(needle) : haystack[i + k - 1] = needle[k]

\* str::contains: scan the start positions from the left.
RECURSIVE ScanFrom(_, _, _)
ScanFrom(haystack, needle, i) ==
    IF i + Len(needle) - 1 > Len(haystack) THEN FALSE
    ELSE IF StartsWithAt(haystack, needle, i) THEN TRUE
    ELSE ScanFrom(haystack, needle, i + 1)

\* Variant: the needle is looked for at the start only (starts_with).
starts_with(haystack, needle) == StartsWithAt(haystack, needle, 1)

contains(haystack, needle) == ScanFrom(haystack, needle, 1)

\* Variant: the Apple test comes before the Linux test.
github_os_for_target_apple_first(target) ==
    IF contains(target, APPLE) THEN Some("macos-latest")
    ELSE IF contains(target, LINUX) THEN Some("ubuntu-latest")
    ELSE IF contains(target, WINDOWS) THEN Some("windows-latest")
    ELSE None

github_os_for_target(target) ==
    IF contains(target, LINUX) THEN Some("ubuntu-latest")
    ELSE IF contains(target, APPLE) THEN Some("macos-latest")
    ELSE IF contains(target, WINDOWS) THEN Some("windows-latest")
    ELSE None


-----------------------------------------------------------------------------
(* The document *)

\* The static sections, each one chunk: the verbatim text of the constant.
GITHUB_CI_PART1 == <<"GITHUB_CI_PART1">>
GITHUB_CI_PART2 == <<"GITHUB_CI_PART2">>
GITHUB_CI_PART3 == <<"GITHUB_CI_PART3">>

\* The newline writeln! adds.
NL == <<"\n">>

\* write!(&mut target_args, "--target={target} ")
TargetArg(target) == <<"--target=">> \o target \o <<" ">>

\* The loop that fills target_args, over the first n targets.
RECURSIVE ArgsUpTo(_, _)
ArgsUpTo(ts, n) ==
    IF n = 0 THEN <<>> ELSE ArgsUpTo(ts, n - 1) \o TargetArg(ts[n])

\* Variant: only the targets of the matrix get a flag.
target_args_of_matrix(ts) ==
    ArgsUpTo(SelectSeq(ts, LAMBDA t : github_os_for_target(t) # None),
             Len(SelectSeq(ts, LAMBDA t : github_os_for_target(t) # None)))

target_args(ts) == ArgsUpTo(ts, Len(ts))

\* "  ALL_CARGO_DIST_TARGET_ARGS: {}"
EnvLine(ts) == <<"  ALL_CARGO_DIST_TARGET_ARGS: ">> \o target_args(ts)

\* "        - target: {target}"
TargetLine(target) == <<"        - target: ">> \o target

\* "          os: {os}"
OsLine(os) == <<"          os: ", os>>

-----------------------------------------------------------------------------
(* Results and I/O *)

\* The I/O errors the file system raises in the model.
IoErrors == {"PermissionDenied", "StorageFull"}

CtxCreateDir  == "Failed to create ci dir"
\* Variant: the file step carries the directory step's context.
CtxCreateFile_pasted == "Failed to create ci dir"
CtxCreateFile == "Failed to create ci file"
CtxWrite      == "Failed to write to CI file"

Pending == [tag |-> "Pending", context |-> "", source |-> ""]
Ok      == [tag |-> "Ok", context |-> "", source |-> ""]
\* .into_diagnostic().wrap_err(context) around the I/O error e
Err(context, e) == [tag |-> "Err", context |-> context, source |-> e]

NoGolden == [set |-> FALSE, targets |-> <<>>, doc |-> <<>>]

\* One I/O call of the log: what was called and how it ended.
IoOk(op) == [op |-> op, ok |-> TRUE, err |-> ""]
IoErr(op, e) == [op |-> op, ok |-> FALSE, err |-> e]

\* The proper prefixes of a text: what a write that fails may have written.
ProperPrefixes(text) == {SubSeq(text, 1, k) : k \in 0..(Len(text) - 1)}

\* writeln!(f, ...) succeeds: the text and a newline reach the file.
WritelnOk(text, op) ==
    /\ ci_file' = ci_file \o text \o NL
    /\ ops' = Append(ops, IoOk(op))

\* writeln!(f, ...)? fails: part of the text may have reached the file, the
\* error leaves write_github_ci and generate_github_ci wraps it.
WritelnErr(text, op) ==
    \E written \in ProperPrefixes(text \o NL), e \in IoErrors :
        /\ ci_file' = ci_file \o written
        /\ ops' = Append(ops, IoErr(op, e))
        /\ result' = Err(CtxWrite, e)
        /\ pc' = "done"

-----------------------------------------------------------------------------
(* Inputs *)

\* The target strings of the generator specification.
UNKNOWN == <<"n", "o", "n", "e">>
TargetSet == {LINUX, APPLE, WINDOWS, UNKNOWN}

TargetLists == UNION {[1..n -> TargetSet] : n \in 0..MaxTargets}

\* The probe strings of the resolver specification: up to MaxSegs segments.
Segments == {LINUX, APPLE, WINDOWS, <<"l", "i", "n">>, <<"u", "x">>,
             <<"L", "i", "n", "u", "x">>, <<"-">>}

RECURSIVE Concats(_)
Concats(n) ==
    IF n = 0 THEN {<<>>}
    ELSE LET shorter == Concats(n - 1)
         IN  shorter \cup {s \o seg : s \in shorter, seg \in Segments}

Probes == Concats(MaxSegs)

\* What the output path holds.
PathState ==
    IF ~ci_dir_exists THEN "no_dir"
    ELSE IF ~ci_file_exists THEN "no_file"
    ELSE IF Len(ci_file) >= 2
            /\ SubSeq(ci_file, Len(ci_file) - 1, Len(ci_file)) = GITHUB_CI_PART3 \o NL
         THEN "complete"
    ELSE "partial"

-----------------------------------------------------------------------------
(* The generator *)

Init ==
    /\ ci_dir_exists = FALSE
    /\ ci_file_exists = FALSE
    /\ ci_file = <<>>
    /\ pc = "idle"
    /\ targets = <<>>
    /\ idx = 0
    /\ result = Pending
    /\ warnings = <<>>
    /\ ops = <<>>
    /\ prior = "none"
    /\ recording = FALSE
    /\ golden = NoGolden
    /\ probe = <<>>
    /\ probed = <<>>

\* A caller enters generate_github_ci.
generate_github_ci ==
    /\ pc = "idle"
    /\ pc' = "create_dir_all"
    /\ prior' = PathState
    /\ UNCHANGED <<ci_dir_exists, ci_file_exists, ci_file, targets, idx, result,
                   warnings, ops, recording, golden, probe, probed>>

\* Variant: the error of create_dir_all is dropped and the run goes on.
create_dir_all_ignored ==
    /\ pc = "create_dir_all"
    /\ \/ /\ ci_dir_exists' = TRUE
          /\ ops' = Append(ops, IoOk("create_dir_all"))
       \/ \E e \in IoErrors :
            /\ ops' = Append(ops, IoErr("create_dir_all", e))
            /\ UNCHANGED ci_dir_exists
    /\ pc' = "File::create"
    /\ UNCHANGED <<ci_file_exists, ci_file, targets, idx, result, warnings,
                   prior, recording, golden, probe, probed>>

\* std::fs::create_dir_all(&ci_dir) ... ?
create_dir_all ==
    /\ pc = "create_dir_all"
    /\ \/ /\ ci_dir_exists' = TRUE
          /\ ops' = Append(ops, IoOk("create_dir_all"))
          /\ pc' = "File::create"
          /\ UNCHANGED result
       \/ \E e \in IoErrors :
            /\ ops' = Append(ops, IoErr("create_dir_all", e))
            /\ result' = Err(CtxCreateDir, e)
            /\ pc' = "done"
            /\ UNCHANGED ci_dir_exists
    /\ UNCHANGED <<ci_file_exists, ci_file, targets, idx, warnings, prior,
                   recording, golden, probe, probed>>

\* Variant: the file is opened for appending, its content kept.
File_create_append ==
    /\ pc = "File::create"
    /\ \/ /\ ci_dir_exists
          /\ ci_file_exists' = TRUE
          /\ ops' = Append(ops, IoOk("File::create"))
          /\ pc' = "write_github_ci"
          /\ UNCHANGED <<ci_file, result>>
       \/ \E e \in IoErrors :
            /\ ops' = Append(ops, IoErr("File::create", e))
            /\ result' = Err(CtxCreateFile, e)
            /\ pc' = "done"
            /\ UNCHANGED <<ci_file_exists, ci_file>>
    /\ UNCHANGED <<ci_dir_exists, targets, idx, warnings, prior, recording,
                   golden, probe, probed>>

\* File::create(ci_file) ... ?: creates the file or truncates it.
File_create ==
    /\ pc = "File::create"
    /\ \/ /\ ci_dir_exists
          /\ ci_file_exists' = TRUE
          /\ ci_file' = <<>>
          /\ ops' = Append(ops, IoOk("File::create"))
          /\ pc' = "write_github_ci"
          /\ UNCHANGED result
       \/ \E e \in IoErrors :
            /\ ops' = Append(ops, IoErr("File::create", e))
            /\ result' = Err(CtxCreateFile, e)
            /\ pc' = "done"
            /\ UNCHANGED <<ci_file_exists, ci_file>>
    /\ UNCHANGED <<ci_dir_exists, targets, idx, warnings, prior, recording,
                   golden, probe, probed>>

\* write_github_ci(&mut file, targets) is entered with the caller's slice,
\* which generate_github_ci only passes on (nothing before line 146 reads
\* it): the model draws it here.  Then writeln!(f, "{GITHUB_CI_PART1}")?
WritePart1 ==
    /\ pc = "write_github_ci"
    /\ \E T \in TargetLists : targets' = T
    /\ \/ /\ WritelnOk(GITHUB_CI_PART1, "PART1")
          /\ pc' = "env"
          /\ UNCHANGED result
       \/ WritelnErr(GITHUB_CI_PART1, "PART1")
    /\ UNCHANGED <<ci_dir_exists, ci_file_exists, idx, warnings, prior,
                   recording, golden, probe, probed>>

\* Variant: the flags are written in the order of a hash set, any order.
WriteEnvLine_unordered ==
    /\ pc = "env"
    /\ \E order \in {f \in [1..Len(targets) -> 1..Len(targets)] :
                        \A i, j \in 1..Len(targets) : f[i] = f[j] => i = j} :
         LET shuffled == [i \in 1..Len(targets) |-> targets[order[i]]]
         IN  \/ /\ WritelnOk(EnvLine(shuffled), "env")
                /\ pc' = "PART2"
                /\ UNCHANGED result
             \/ WritelnErr(EnvLine(shuffled), "env")
    /\ UNCHANGED <<ci_dir_exists, ci_file_exists, targets, idx, warnings, prior,
                   recording, golden, probe, probed>>

\* The target_args loop and writeln!(f, "  ALL_CARGO_DIST_TARGET_ARGS: {}", ...)?
WriteEnvLine ==
    /\ pc = "env"
    /\ \/ /\ WritelnOk(EnvLine(targets), "env")
          /\ pc' = "PART2"
          /\ UNCHANGED result
       \/ WritelnErr(EnvLine(targets), "env")
    /\ UNCHANGED <<ci_dir_exists, ci_file_exists, targets, idx, warnings, prior,
                   recording, golden, probe, probed>>

\* Variant: the third static section is written in place of the second.
WritePart2_pasted ==
    /\ pc = "PART2"
    /\ \/ /\ WritelnOk(GITHUB_CI_PART3, "PART2")
          /\ pc' = "matrix"
          /\ UNCHANGED result
       \/ WritelnErr(GITHUB_CI_PART3, "PART2")
    /\ UNCHANGED <<ci_dir_exists, ci_file_exists, targets, idx, warnings, prior,
                   recording, golden, probe, probed>>

\* writeln!(f, "{GITHUB_CI_PART2}")?
WritePart2 ==
    /\ pc = "PART2"
    /\ \/ /\ WritelnOk(GITHUB_CI_PART2, "PART2")
          /\ pc' = "matrix"
          /\ UNCHANGED result
       \/ WritelnErr(GITHUB_CI_PART2, "PART2")
    /\ UNCHANGED <<ci_dir_exists, ci_file_exists, targets, idx, warnings, prior,
                   recording, golden, probe, probed>>

\* Variant: a target without a runner ends the loop (break for continue).
MatrixTarget_break ==
    /\ pc = "matrix"
    /\ idx < Len(targets)
    /\ LET target == targets[idx + 1]
       IN  IF github_os_for_target(target) = None
           THEN /\ warnings' = Append(warnings, target)
                /\ idx' = Len(targets)
                /\ UNCHANGED <<ci_file, ops, result, pc>>
           ELSE /\ \/ /\ WritelnOk(TargetLine(target), "target")
                      /\ pc' = "matrix_os"
                      /\ UNCHANGED result
                   \/ WritelnErr(TargetLine(target), "target")
                /\ UNCHANGED <<warnings, idx>>
    /\ UNCHANGED <<ci_dir_exists, ci_file_exists, targets, prior, recording,
                   golden, probe, probed>>

\* Variant: a target without a runner is an error of the run.
MatrixTarget_fatal ==
    /\ pc = "matrix"
    /\ idx < Len(targets)
    /\ LET target == targets[idx + 1]
       IN  IF github_os_for_target(target) = None
           THEN /\ result' = Err(CtxWrite, "Unsupported")
                /\ pc' = "done"
                /\ UNCHANGED <<ci_file, ops, warnings, idx>>
           ELSE /\ \/ /\ WritelnOk(TargetLine(target), "target")
                      /\ pc' = "matrix_os"
                      /\ UNCHANGED result
                   \/ WritelnErr(TargetLine(target), "target")
                /\ UNCHANGED <<warnings, idx>>
    /\ UNCHANGED <<ci_dir_exists, ci_file_exists, targets, prior, recording,
                   golden, probe, probed>>

\* One turn of `for target in targets`, up to the target line: a target
\* without a runner is warned about and skipped.
MatrixTarget ==
    /\ pc = "matrix"
    /\ idx < Len(targets)
    /\ LET target == targets[idx + 1]
       IN  IF github_os_for_target(target) = None
           THEN /\ warnings' = Append(warnings, target)
                /\ idx' = idx + 1
                /\ UNCHANGED <<ci_file, ops, result, pc>>
           ELSE /\ \/ /\ WritelnOk(TargetLine(target), "target")
                      /\ pc' = "matrix_os"
                      /\ UNCHANGED result
                   \/ WritelnErr(TargetLine(target), "target")
                /\ UNCHANGED <<warnings, idx>>
    /\ UNCHANGED <<ci_dir_exists, ci_file_exists, targets, prior, recording,
                   golden, probe, probed>>

\* The rest of the turn: writeln!(f, "          os: {os}")?
MatrixOs ==
    /\ pc = "matrix_os"
    /\ LET os == github_os_for_target(targets[idx + 1])[1]
       IN  \/ /\ WritelnOk(OsLine(os), "os")
              /\ idx' = idx + 1
              /\ pc' = "matrix"
              /\ UNCHANGED result
           \/ /\ WritelnErr(OsLine(os), "os")
              /\ UNCHANGED idx
    /\ UNCHANGED <<ci_dir_exists, ci_file_exists, targets, warnings, prior,
                   recording, golden, probe, probed>>

\* After the loop: writeln!(f, "{GITHUB_CI_PART3}")?; Ok(()) twice.
WritePart3 ==
    /\ pc = "matrix"
    /\ idx = Len(targets)
    /\ \/ /\ WritelnOk(GITHUB_CI_PART3, "PART3")
          /\ result' = Ok
          /\ pc' = "done"
       \/ WritelnErr(GITHUB_CI_PART3, "PART3")
    /\ UNCHANGED <<ci_dir_exists, ci_file_exists, targets, idx, warnings, prior,
                   recording, golden, probe, probed>>

\* The result reaches the caller; nothing of the call is kept but the file.
\* A recording caller may remember the document of a successful call.
Return ==
    /\ pc = "done"
    /\ pc' = "idle"
    /\ targets' = <<>>
    /\ idx' = 0
    /\ result' = Pending
    /\ warnings' = <<>>
    /\ ops' = <<>>
    /\ prior' = "none"
    /\ golden' \in {golden} \cup
           (IF recording /\ result = Ok
            THEN {[set |-> TRUE, targets |-> targets, doc |-> ci_file]}
            ELSE {})
    /\ UNCHANGED <<ci_dir_exists, ci_file_exists, ci_file, recording, probe,
                   probed>>

\* Between calls, somebody deletes release.yml.
DeleteFile ==
    /\ pc = "idle"
    /\ ci_file_exists
    /\ ci_file_exists' = FALSE
    /\ ci_file' = <<>>
    /\ UNCHANGED <<ci_dir_exists, pc, targets, idx, result, warnings, ops,
                   prior, recording, golden, probe, probed>>

\* Between calls, somebody deletes .github/workflows/ and what it holds.
DeleteDir ==
    /\ pc = "idle"
    /\ ci_dir_exists
    /\ ci_dir_exists' = FALSE
    /\ ci_file_exists' = FALSE
    /\ ci_file' = <<>>
    /\ UNCHANGED <<pc, targets, idx, result, warnings, ops, prior, recording,
                   golden, probe, probed>>

Next ==
    \/ generate_github_ci
    \/ create_dir_all
    \/ File_create
    \/ WritePart1
    \/ WriteEnvLine
    \/ WritePart2
    \/ MatrixTarget
    \/ MatrixOs
    \/ WritePart3
    \/ Return
    \/ DeleteFile
    \/ DeleteDir

Spec == Init /\ [][Next]_vars

\* The same generator, remembering successful documents.
InitRecording ==
    /\ ci_dir_exists = FALSE
    /\ ci_file_exists = FALSE
    /\ ci_file = <<>>
    /\ pc = "idle"
    /\ targets = <<>>
    /\ idx = 0
    /\ result = Pending
    /\ warnings = <<>>
    /\ ops = <<>>
    /\ prior = "none"
    /\ recording = TRUE
    /\ golden = NoGolden
    /\ probe = <<>>
    /\ probed = <<>>

SpecRecording == InitRecording /\ [][Next]_vars

-----------------------------------------------------------------------------
(* The resolver on its own *)

InitResolver ==
    /\ ci_dir_exists = FALSE
    /\ ci_file_exists = FALSE
    /\ ci_file = <<>>
    /\ pc = "idle"
    /\ targets = <<>>
    /\ idx = 0
    /\ result = Pending
    /\ warnings = <<>>
    /\ ops = <<>>
    /\ prior = "none"
    /\ recording = FALSE
    /\ golden = NoGolden
    /\ probe \in Probes
    /\ probed = <<>>

Resolve ==
    /\ probed = <<>>
    /\ probed' = <<github_os_for_target(probe)>>
    /\ UNCHANGED <<ci_dir_exists, ci_file_exists, ci_file, pc, targets, idx,
                   result, warnings, ops, prior, recording, golden, probe>>

NextResolver == Resolve

SpecResolver == InitResolver /\ [][NextResolver]_vars

-----------------------------------------------------------------------------
(* Reading a document back *)

\* The places of the chunk sep in s, and the k-th of them from the left.
SepPlaces(s, sep) == {i \in 1..Len(s) : s[i] = sep}

SepPlace(s, sep, k) ==
    CHOOSE i \in SepPlaces(s, sep) :
        Cardinality({j \in SepPlaces(s, sep) : j < i}) = k - 1

\* s cut at every chunk sep: the pieces between them, the one after the last
\* sep included (it is <<>> when s ends with sep).
SplitOn(s, sep) ==
    [k \in 1..(Cardinality(SepPlaces(s, sep)) + 1) |->
        SubSeq(s,
               IF k = 1 THEN 1 ELSE SepPlace(s, sep, k - 1) + 1,
               IF k = Cardinality(SepPlaces(s, sep)) + 1
               THEN Len(s) ELSE SepPlace(s, sep, k) - 1)]

Lines(text) == SplitOn(text, "\n")

\* How many chunks of text are c.
Count(text, c) == Cardinality({i \in 1..Len(text) : text[i] = c})

\* needle is a substring of s.
Occurs(needle, s) ==
    \E i \in 1..(Len(s) + 1) :
        /\ i + Len(needle) - 1 <= Len(s)
        /\ SubSeq(s, i, i + Len(needle) - 1) = needle

\* The runner the specification gives a target: the first of Linux, Apple,
\* Windows whose substring the target holds.
ExpectedRunner(t) ==
    IF Occurs(LINUX, t) THEN <<"ubuntu-latest">>
    ELSE IF Occurs(APPLE, t) THEN <<"macos-latest">>
    ELSE IF Occurs(WINDOWS, t) THEN <<"windows-latest">>
    ELSE <<>>

HasRunner(t) == ExpectedRunner(t) # <<>>
HasNoRunner(t) == ExpectedRunner(t) = <<>>

Succeeded == pc = "done" /\ result.tag = "Ok"
Failed == pc = "done" /\ result.tag = "Err"

\* The lines of a finished document between the second and the third static
\* section.
MatrixLines(text) == SubSeq(Lines(text), 4, Len(Lines(text)) - 2)

-----------------------------------------------------------------------------
(* C1 *)

\* C1: once the env line is written, the file's second line is the only
\* ALL_CARGO_DIST_TARGET_ARGS line; cut at its spaces it holds exactly
\* Len(targets) tokens, the i-th being --target=<targets[i]>, each followed
\* by exactly one space (nothing follows the last space); duplicates and
\* targets without a runner are kept, and no target gives no token.
C1_EnvLineListsEveryTarget ==
    (\E i \in 1..Len(ops) : ops[i] = IoOk("env")) =>
        LET ls == Lines(ci_file)
            toks == SplitOn(Tail(ls[2]), " ")
        IN  /\ Count(ci_file, "  ALL_CARGO_DIST_TARGET_ARGS: ") = 1
            /\ Head(ls[2]) = "  ALL_CARGO_DIST_TARGET_ARGS: "
            /\ Len(toks) = Len(targets) + 1
            /\ toks[Len(toks)] = <<>>
            /\ \A i \in 1..Len(targets) : toks[i] = <<"--target=">> \o targets[i]

\* A successful run over a duplicated target that has no runner.
C1_Witness ==
    /\ Succeeded
    /\ Len(targets) = 2
    /\ targets[1] = targets[2]
    /\ HasNoRunner(targets[1])

-----------------------------------------------------------------------------
(* C2 *)

\* C2: in a finished document the lines between the second and the third
\* static section are, for the targets that have a runner taken in input
\* order (duplicates kept), one target line followed by one os line naming
\* the target's runner; there is none when no target has a runner.
C2_MatrixIsMappableSubsequence ==
    Succeeded =>
        LET mappable == SelectSeq(targets, HasRunner)
            m == MatrixLines(ci_file)
        IN  /\ Len(m) = 2 * Len(mappable)
            /\ \A k \in 1..Len(mappable) :
                 /\ m[2 * k - 1] = <<"        - target: ">> \o mappable[k]
                 /\ m[2 * k] = <<"          os: ">> \o ExpectedRunner(mappable[k])

\* A successful run over a target without a runner followed by one with.
C2_Witness ==
    /\ Succeeded
    /\ Len(targets) = 2
    /\ HasNoRunner(targets[1])
    /\ HasRunner(targets[2])
    /\ Len(MatrixLines(ci_file)) = 2

-----------------------------------------------------------------------------
(* C3 *)

\* C3: github_os_for_target answers for every string, with one of the three
\* runners or with None, and its answer is the first match in the order
\* Linux, Apple, Windows.
C3_FirstMatchWins ==
    probed # <<>> =>
        /\ probed[1] \in {None, Some("ubuntu-latest"), Some("macos-latest"),
                          Some("windows-latest")}
        /\ probed[1] = ExpectedRunner(probe)

\* A string that holds all three substrings, Linux last, has been resolved.
C3_Witness ==
    /\ probed = <<Some("ubuntu-latest")>>
    /\ probe = WINDOWS \o APPLE \o LINUX

-----------------------------------------------------------------------------
(* C4 *)

\* C4 as stated: each substring alone decides the runner.
C4_Original ==
    probed # <<>> =>
        /\ Occurs(LINUX, probe) => probed[1] = Some("ubuntu-latest")
        /\ Occurs(APPLE, probe) => probed[1] = Some("macos-latest")
        /\ Occurs(WINDOWS, probe) => probed[1] = Some("windows-latest")
        /\ (~Occurs(LINUX, probe) /\ ~Occurs(APPLE, probe)
               /\ ~Occurs(WINDOWS, probe)) => probed[1] = None

\* C4 (amended): a target holding the Linux substring gets the Linux runner;
\* one holding the Apple substring and not the Linux one gets the macOS
\* runner; one holding the Windows substring and neither of the other two
\* gets the Windows runner; one holding none of the three gets no runner.
C4_Amended ==
    probed # <<>> =>
        /\ Occurs(LINUX, probe) => probed[1] = Some("ubuntu-latest")
        /\ (Occurs(APPLE, probe) /\ ~Occurs(LINUX, probe))
               => probed[1] = Some("macos-latest")
        /\ (Occurs(WINDOWS, probe) /\ ~Occurs(LINUX, probe)
               /\ ~Occurs(APPLE, probe)) => probed[1] = Some("windows-latest")
        /\ (~Occurs(LINUX, probe) /\ ~Occurs(APPLE, probe)
               /\ ~Occurs(WINDOWS, probe)) => probed[1] = None

\* A string with the Windows substring inside it, and no other, resolved.
C4_Witness ==
    /\ probed = <<Some("windows-latest")>>
    /\ probe = <<"-">> \o WINDOWS \o <<"-">>

-----------------------------------------------------------------------------
(* C5 *)

\* The place of a write in the document: 0 for a call that writes nothing.
SectionRank(op) ==
    CASE op = "PART1" -> 1
      [] op = "env" -> 2
      [] op = "PART2" -> 3
      [] op \in {"target", "os"} -> 4
      [] op = "PART3" -> 5
      [] OTHER -> 0

\* C5: at every moment the writes made so far are in the order header, env
\* line, job preamble, matrix lines, remaining jobs, each of the four
\* non-matrix writes made at most once; and the finished file is the first
\* static section, one env line, the second static section, matrix lines
\* only, the third static section, with each static section and the env key
\* occurring exactly once, whatever the targets.
C5_SectionsInFixedOrder ==
    /\ \A i, j \in 1..Len(ops) :
         (i < j /\ SectionRank(ops[i].op) > 0) =>
            \/ SectionRank(ops[i].op) < SectionRank(ops[j].op)
            \/ SectionRank(ops[i].op) = 4 /\ SectionRank(ops[j].op) = 4
    /\ Succeeded =>
         LET ls == Lines(ci_file)
             n == Len(ls)
         IN  /\ n >= 5
             /\ ls[1] = GITHUB_CI_PART1
             /\ Head(ls[2]) = "  ALL_CARGO_DIST_TARGET_ARGS: "
             /\ ls[3] = GITHUB_CI_PART2
             /\ \A k \in 4..(n - 2) :
                  Head(ls[k]) \in {"        - target: ", "          os: "}
             /\ ls[n - 1] = GITHUB_CI_PART3
             /\ ls[n] = <<>>
             /\ Count(ci_file, GITHUB_CI_PART1[1]) = 1
             /\ Count(ci_file, GITHUB_CI_PART2[1]) = 1
             /\ Count(ci_file, GITHUB_CI_PART3[1]) = 1
             /\ Count(ci_file, "  ALL_CARGO_DIST_TARGET_ARGS: ") = 1
             /\ [k \in 1..3 |-> ops[k + 2].op] = <<"PART1", "env", "PART2">>
             /\ ops[Len(ops)].op = "PART3"

\* A finished document with a matrix entry and a skipped target.
C5_Witness ==
    /\ Succeeded
    /\ Len(targets) = 2
    /\ HasRunner(targets[1])
    /\ HasNoRunner(targets[2])
    /\ Len(Lines(ci_file)) = 7

-----------------------------------------------------------------------------
(* C6 *)

\* C6: a successful run whose targets are those of a remembered earlier
\* successful run leaves the very document that run left, whatever the output
\* path held when either run started.
C6_SameTargetsSameBytes ==
    (Succeeded /\ golden.set /\ golden.targets = targets) =>
        ci_file = golden.doc

\* A second successful run with the remembered targets, started over the
\* partial file of a failed run.
C6_Witness ==
    /\ Succeeded
    /\ golden.set
    /\ golden.targets = targets
    /\ Len(targets) = 2
    /\ targets[1] # targets[2]
    /\ prior = "partial"

-----------------------------------------------------------------------------
(* C7 *)

\* The I/O call that ended the run.
LastOp == ops[Len(ops)]

\* C7 as stated: the three contexts are the texts the specification quotes.
C7_Original ==
    Failed =>
        /\ LastOp.op = "create_dir_all"
              => result.context = "failed to create workflow directory"
        /\ LastOp.op = "File::create"
              => result.context = "failed to create workflow file"
        /\ LastOp.op \notin {"create_dir_all", "File::create"}
              => result.context = "failed to write workflow content"

\* C7 (amended): a failed run returns an error that wraps the I/O error of
\* the call that failed and carries the context of its step: "Failed to
\* create ci dir" for the directory, "Failed to create ci file" for the file,
\* "Failed to write to CI file" for any write; the three differ, and a run
\* in which an I/O call failed never returns success.
C7_Amended ==
    /\ Failed =>
         /\ Len(ops) > 0
         /\ ~LastOp.ok
         /\ result.source = LastOp.err
         /\ result.source \in IoErrors
         /\ LastOp.op = "create_dir_all"
               => result.context = "Failed to create ci dir"
         /\ LastOp.op = "File::create"
               => result.context = "Failed to create ci file"
         /\ SectionRank(LastOp.op) > 0
               => result.context = "Failed to write to CI file"
         /\ LastOp.op \in {"create_dir_all", "File::create"}
               \/ SectionRank(LastOp.op) > 0
    /\ Cardinality({CtxCreateDir, CtxCreateFile, CtxWrite}) = 3
    /\ (pc = "done" /\ \E i \in 1..Len(ops) : ~ops[i].ok) => result.tag = "Err"

\* File::create has failed in a directory that exists.
C7_Witness ==
    /\ Failed
    /\ ci_dir_exists
    /\ LastOp = IoErr("File::create", "PermissionDenied")

-----------------------------------------------------------------------------
(* C8 *)

\* C8: the warnings of a run are, in order, the targets without a runner
\* among those the matrix loop has consumed, one per occurrence and none for
\* a target with a runner; an error is returned only when an I/O call failed,
\* and a run all of whose I/O calls succeeded returns success, so that a
\* finished run has warned of every target without a runner and of no other.
C8_UnmappableOnlyWarns ==
    /\ idx <= Len(targets)
    /\ warnings = SelectSeq(SubSeq(targets, 1, idx), HasNoRunner)
    /\ result.tag = "Err" => (Len(ops) > 0 /\ ~ops[Len(ops)].ok)
    /\ (pc = "done" /\ \A i \in 1..Len(ops) : ops[i].ok) => result.tag = "Ok"
    /\ Succeeded => warnings = SelectSeq(targets, HasNoRunner)

\* A successful run none of whose two targets has a runner.
C8_Witness ==
    /\ Succeeded
    /\ Len(targets) = 2
    /\ HasNoRunner(targets[1])
    /\ HasNoRunner(targets[2])
    /\ warnings = targets

-----------------------------------------------------------------------------
(* C9 *)

RECURSIVE ExpectedArgs(_)
ExpectedArgs(ts) ==
    IF ts = <<>> THEN <<>>
    ELSE <<"--target=">> \o Head(ts) \o <<" ">> \o ExpectedArgs(Tail(ts))

RECURSIVE ExpectedMatrix(_)
ExpectedMatrix(ts) ==
    IF ts = <<>> THEN <<>>
    ELSE (IF HasRunner(Head(ts))
          THEN <<"        - target: ">> \o Head(ts) \o <<"\n">>
               \o <<"          os: ">> \o ExpectedRunner(Head(ts)) \o <<"\n">>
          ELSE <<>>)
         \o ExpectedMatrix(Tail(ts))

\* The document the specification gives a target list.
WorkflowDocument(ts) ==
    <<"GITHUB_CI_PART1", "\n", "  ALL_CARGO_DIST_TARGET_ARGS: ">>
    \o ExpectedArgs(ts) \o <<"\n", "GITHUB_CI_PART2", "\n">>
    \o ExpectedMatrix(ts) \o <<"GITHUB_CI_PART3", "\n">>

\* C9: when a run has succeeded the directory and the file exist and the file
\* holds exactly the document of the run's targets, whatever the path held
\* before (another document, a partial file, no file, no directory).
C9_SuccessLeavesExactlyTheDocument ==
    Succeeded =>
        /\ ci_dir_exists
        /\ ci_file_exists
        /\ ci_file = WorkflowDocument(targets)

\* A successful run that started over the partial file of a failed run.
C9_Witness ==
    /\ Succeeded
    /\ prior = "partial"
    /\ Len(targets) = 2

-----------------------------------------------------------------------------
(* C10 *)

\* The I/O calls of a run in the order of the code; a failed call is the last
\* one and ends the run with an error; success needs all three steps.
C10_Order ==
    /\ \A i \in 1..Len(ops) :
         /\ (i = 1) <=> (ops[i].op = "create_dir_all")
         /\ (i = 2) <=> (ops[i].op = "File::create")
         /\ (i > 2) <=> (SectionRank(ops[i].op) > 0)
         /\ ~ops[i].ok => (i = Len(ops) /\ Failed)
    /\ result.tag = "Ok" =>
         /\ Len(ops) >= 6
         /\ \A i \in 1..Len(ops) : ops[i].ok
         /\ ops[Len(ops)].op = "PART3"

\* A failure of the first or the second step ends the run at once and leaves
\* the file as it was; a finished run does nothing more.
C10_Abort ==
    /\ (pc \in {"create_dir_all", "File::create"} /\ result'.tag = "Err") =>
          (pc' = "done" /\ UNCHANGED <<ci_file_exists, ci_file>>)
    /\ (pc = "create_dir_all" /\ result'.tag = "Err") => UNCHANGED ci_dir_exists
    /\ pc = "done" =>
          (pc' = "idle" /\ UNCHANGED <<ci_dir_exists, ci_file_exists, ci_file>>)

\* C10: the steps run in the order create_dir_all, File::create, writes; a
\* failed step is the last I/O call of the run, which ends at once with an
\* error and no retry: after a directory failure the file is neither created
\* nor truncated nor written, after a file-creation failure nothing is
\* written; success is returned only when every step succeeded.
C10_StepsInOrderAbortOnFailure == [](C10_Order) /\ [][C10_Abort]_vars

\* create_dir_all has failed over a complete earlier document, which stands.
C10_Witness ==
    /\ Failed
    /\ Len(ops) = 1
    /\ prior = "complete"
    /\ PathState = "complete"

=============================================================================
